---- MODULE Spec2Model ----
(***************************************************************************)
(* A model of service_windows.go: the windowsService lifecycle controller. *)
(*                                                                         *)
(* Two specifications share this module.                                   *)
(*   Spec     Run() and the dispatch loop Execute(), with the host's run   *)
(*            primitive svc.Run, the control channel r, the status sink    *)
(*            changes and the client callbacks as the environment.         *)
(*   SpecMgr  the service-manager operations (Status, Start, Stop,         *)
(*            Restart, Install, Uninstall) with stopWait and               *)
(*            uninstallWait, with the service control manager, the         *)
(*            registry, the tickers and the timeout timers as the          *)
(*            environment.                                                 *)
(* Program positions are named after the source line they stand at.        *)
(***************************************************************************)
EXTENDS Integers, Sequences, FiniteSets, TLC

(***************************************************************************)
(* Bounds of the model.                                                    *)
(***************************************************************************)
\* control requests the host delivers to one Execute
MaxReq == 3
\* Run() calls on the same windowsService
MaxRuns == 2
\* operations called one after the other on the service manager
MaxOps == 2
\* largest value of getStopTimeout(), in units of 25 ms
MaxKillTimeout == 3

(***************************************************************************)
(* Values.                                                                 *)
(***************************************************************************)
\* the nil error
nil == "nil"

\* svc.Cmd values the host may deliver (svc.Stop, svc.Pause, svc.Continue,
\* svc.Interrogate, svc.Shutdown)
Cmds == {"Stop", "Pause", "Continue", "Interrogate", "Shutdown"}

\* const cmdsAccepted = svc.AcceptStop | svc.AcceptShutdown
cmdsAccepted == {"Stop", "Shutdown"}

\* svc.Status{State: st, Accepts: acc}
Status(st, acc) == [State |-> st, Accepts |-> acc]

\* CurrentStatus values a ChangeRequest may carry
CurrentStatuses ==
    { Status("Running", cmdsAccepted),
      Status("StopPending", {}),
      Status("Paused", {"Stop"}) }

\* svc.ChangeRequest{Cmd, CurrentStatus}; CurrentStatus matters to
\* Interrogate only, so the other commands carry one fixed value
ChangeRequests ==
    { [Cmd |-> "Interrogate", CurrentStatus |-> cs] : cs \in CurrentStatuses }
    \cup { [Cmd |-> k, CurrentStatus |-> Status("Running", cmdsAccepted)] :
             k \in Cmds \ {"Interrogate"} }

NoRequest == [Cmd |-> "none", CurrentStatus |-> Status("none", {})]

\* results of the client callbacks and of the host's run primitive
StartResults == {nil, "EStart"}
StopResults == {nil, "EStop"}
ShutdownResults == {nil, "EShutdown"}
SvcRunResults == {nil, "ERun"}

\* no value returned yet
NoRet == "none"

VARIABLES
    interactive,    \* package variable interactive (set once by init())
    hasShutdowner,  \* ws.i implements Shutdowner
    stopStartErr,   \* ws.stopStartErr, the error relay (guarded by errSync)
    pcRun,          \* position of Run() on the caller's context
    runNo,          \* Run() calls made so far
    runErr,         \* Run's local runErr
    startStopErr,   \* Run's local startStopErr
    runRet,         \* what the latest Run() returned
    pcExec,         \* position of Execute() on the host's context
    c,              \* Execute's local c, the request being handled
    err,            \* Execute's local err
    execRet,        \* what Execute returned: <<ssec, errno>>
    changes,        \* statuses sent on the changes channel, each with the
                    \* source line that sent it
    calls,          \* client callbacks invoked in this Run() and what each
                    \* returned, in order
    received,       \* requests received from r in this Run(), in order
    relayWrites,    \* values Execute passed to setError in this Run()
    exits,          \* return values of Execute in this Run(), in order
    relayAtCall,    \* what the relay held when this Run() was called
    interrupts,     \* os.Interrupt signals delivered to this Run()
    installed,      \* the service control manager holds an entry ws.Name
    svcState,       \* the raw state the manager reports for the service
    stopping,       \* the service has accepted a stop control and has not
                    \* yet stopped
    mgrOpen,        \* manager connections open
    svcOpen,        \* service handles open
    op,             \* the operation called last (Status, Start, Stop,
                    \* Restart, Install, Uninstall)
    opNo,           \* operations called so far
    pcM,            \* position in the operation
    holdM,          \* the operation holds a manager connection m
    holdS,          \* the operation holds a service handle s
    status,         \* stopWait's local status (its State)
    waitRet,        \* what stopWait returned
    opErr,          \* the error the operation is about to return
    opRet,          \* what the operation returned
    statusRet,      \* the Status value Status() returned
    now,            \* time since stopWait created its timers, in units
                    \* of 25 ms
    killTimeout,    \* what getStopTimeout() returned to this stopWait
    timeoutAt,      \* when the time.After channel of stopWait fires
    ticksTaken,     \* ticks received from tick.C
    scmLog,         \* calls made to the service control manager by this
                    \* operation, with result and time, in order
    stopRet,        \* Uninstall: what its ws.Stop() returned
    marked,         \* the service is marked for deletion (s.Delete()
                    \* succeeded, the entry is not yet removed)
    envValue,       \* the registry value Environment under
                    \* Services\<ws.Name>
    atCall          \* the registration and the handle counts when the
                    \* operation was called

runVars == <<interactive, hasShutdowner, stopStartErr, pcRun, runNo, runErr,
             startStopErr, runRet, pcExec, c, err, execRet, changes, calls,
             received, relayWrites, exits, relayAtCall, interrupts>>

\* history kept of the current Run() beside the logs
runGhost == <<relayAtCall, interrupts>>

mgrVars == <<installed, svcState, stopping, mgrOpen, svcOpen, op, opNo, pcM,
             holdM, holdS, status, waitRet, opErr, opRet, statusRet, now,
             killTimeout, timeoutAt, ticksTaken, scmLog, stopRet, marked,
             envValue, atCall>>

\* the registration beside the entry itself, and the history of the
\* operation
regSide == <<stopRet, marked, envValue, atCall>>

\* no value Environment under the service's registry key
NoEnvironment == "absent"

\* the registration and the handle counts as they are
Registration == [installed |-> installed, envValue |-> envValue,
                 mgrOpen |-> mgrOpen, svcOpen |-> svcOpen]

vars == <<runVars, mgrVars>>

(***************************************************************************)
(* The error relay.                                                        *)
(***************************************************************************)
\* ws.setError(err): the value the slot holds afterwards
setError(e) == e

\* ws.getError(): the value read from the slot
getError == stopStartErr

(***************************************************************************)
(* Execute: the dispatch loop.                                             *)
(***************************************************************************)
\* one call of a client callback fn that returned ret
Call(fn, ret) == [fn |-> fn, ret |-> ret]

\* one send on the changes channel
Send(st, line) == Append(changes, [status |-> st, line |-> line])

execLocals == <<c, err, execRet>>
execLogs == <<calls, received, relayWrites, exits>>
runSide == <<interactive, hasShutdowner, pcRun, runNo, runErr, startStopErr,
             runRet>>

\* changes <- svc.Status{State: svc.StartPending}
ExecStartPending ==
    /\ pcExec = "L184"
    /\ changes' = Send(Status("StartPending", {}), 184)
    /\ pcExec' = "L186"
    /\ UNCHANGED <<stopStartErr, execLocals, execLogs, runSide>>
    /\ UNCHANGED runGhost
    /\ UNCHANGED mgrVars

\* if err := ws.i.Start(ws); err != nil
ExecStart ==
    /\ pcExec = "L186"
    /\ \E e \in StartResults :
          /\ err' = e
          /\ calls' = Append(calls, Call("Start", e))
          /\ pcExec' = IF e # nil THEN "L187" ELSE "L191"
    /\ UNCHANGED <<stopStartErr, c, execRet, changes, received, relayWrites,
                   exits, runSide>>
    /\ UNCHANGED runGhost
    /\ UNCHANGED mgrVars

\* ws.setError(err) at lines 187, 201 and 214
ExecSetError ==
    /\ pcExec \in {"L187", "L201", "L214"}
    /\ stopStartErr' = setError(err)
    /\ relayWrites' = Append(relayWrites, err)
    /\ pcExec' = CASE pcExec = "L187" -> "L188"
                   [] pcExec = "L201" -> "L202"
                   [] pcExec = "L214" -> "L215"
    /\ UNCHANGED <<execLocals, changes, calls, received, exits, runSide>>
    /\ UNCHANGED runGhost
    /\ UNCHANGED mgrVars

\* ReturnValue with the exit code of a failed Start for a failed Stop
ReturnValue_StopAsStart(pc) ==
    CASE pc = "L188" -> <<TRUE, 1>>
      [] pc = "L202" -> <<TRUE, 1>>
      [] pc = "L215" -> <<TRUE, 2>>
      [] pc = "L223" -> <<FALSE, 0>>

\* the value of a return statement of Execute
ReturnValue(pc) ==
    CASE pc = "L188" -> <<TRUE, 1>>
      [] pc = "L202" -> <<TRUE, 2>>
      [] pc = "L215" -> <<TRUE, 2>>
      [] pc = "L223" -> <<FALSE, 0>>

\* return true, 1 / return true, 2 / return false, 0
ExecReturn ==
    /\ pcExec \in {"L188", "L202", "L215", "L223"}
    /\ execRet' = ReturnValue(pcExec)
    /\ exits' = Append(exits, ReturnValue(pcExec))
    /\ pcExec' = "done"
    /\ UNCHANGED <<stopStartErr, c, err, changes, calls, received,
                   relayWrites, runSide>>
    /\ UNCHANGED runGhost
    /\ UNCHANGED mgrVars

\* changes <- svc.Status{State: svc.Running, Accepts: cmdsAccepted}
ExecRunning ==
    /\ pcExec = "L191"
    /\ changes' = Send(Status("Running", cmdsAccepted), 191)
    /\ pcExec' = "L194"
    /\ UNCHANGED <<stopStartErr, execLocals, execLogs, runSide>>
    /\ UNCHANGED runGhost
    /\ UNCHANGED mgrVars

\* Dispatch with case svc.Stop falling straight to the callback
Dispatch_NoStopPending(cmd) ==
    CASE cmd = "Interrogate" -> "L197"
      [] cmd = "Stop" -> "L200"
      [] cmd = "Shutdown" -> "L206"
      [] OTHER -> "L194"

\* Dispatch with default: break loop
Dispatch_DefaultBreaks(cmd) ==
    CASE cmd = "Interrogate" -> "L197"
      [] cmd = "Stop" -> "L199"
      [] cmd = "Shutdown" -> "L206"
      [] OTHER -> "L223"

\* Dispatch with the default falling into case svc.Interrogate
Dispatch_DefaultEchoes(cmd) ==
    CASE cmd = "Stop" -> "L199"
      [] cmd = "Shutdown" -> "L206"
      [] OTHER -> "L197"

\* switch c.Cmd: the case a request is dispatched to
Dispatch(cmd) ==
    CASE cmd = "Interrogate" -> "L197"
      [] cmd = "Stop" -> "L199"
      [] cmd = "Shutdown" -> "L206"
      [] OTHER -> "L194"

\* c := <-r ; switch c.Cmd (default: continue loop)
ExecReceive ==
    /\ pcExec = "L194"
    /\ Len(received) < MaxReq
    /\ \E req \in ChangeRequests :
          /\ c' = req
          /\ received' = Append(received, req)
          /\ pcExec' = Dispatch(req.Cmd)
    /\ UNCHANGED <<stopStartErr, err, execRet, changes, calls, relayWrites,
                   exits, runSide>>
    /\ UNCHANGED runGhost
    /\ UNCHANGED mgrVars

\* ExecInterrogate reporting Running instead of the status it was given
ExecInterrogate_ReportsRunning ==
    /\ pcExec = "L197"
    /\ changes' = Send(Status("Running", cmdsAccepted), 197)
    /\ pcExec' = "L194"
    /\ UNCHANGED <<stopStartErr, execLocals, execLogs, runSide>>
    /\ UNCHANGED runGhost
    /\ UNCHANGED mgrVars

\* case svc.Interrogate: changes <- c.CurrentStatus
ExecInterrogate ==
    /\ pcExec = "L197"
    /\ changes' = Send(c.CurrentStatus, 197)
    /\ pcExec' = "L194"
    /\ UNCHANGED <<stopStartErr, execLocals, execLogs, runSide>>
    /\ UNCHANGED runGhost
    /\ UNCHANGED mgrVars

\* changes <- svc.Status{State: svc.StopPending} at lines 199 and 206
ExecStopPending ==
    /\ pcExec \in {"L199", "L206"}
    /\ changes' = Send(Status("StopPending", {}),
                       IF pcExec = "L199" THEN 199 ELSE 206)
    /\ pcExec' = IF pcExec = "L199" THEN "L200" ELSE "L208"
    /\ UNCHANGED <<stopStartErr, execLocals, execLogs, runSide>>
    /\ UNCHANGED runGhost
    /\ UNCHANGED mgrVars

\* ExecStop with a plain break, which leaves the switch and not the loop
ExecStop_PlainBreak ==
    /\ pcExec = "L200"
    /\ \E e \in StopResults :
          /\ err' = e
          /\ calls' = Append(calls, Call("Stop", e))
          /\ pcExec' = IF e # nil THEN "L201" ELSE "L194"
    /\ UNCHANGED <<stopStartErr, c, execRet, changes, received, relayWrites,
                   exits, runSide>>
    /\ UNCHANGED runGhost
    /\ UNCHANGED mgrVars

\* case svc.Stop: if err := ws.i.Stop(ws); err != nil ... break loop
ExecStop ==
    /\ pcExec = "L200"
    /\ \E e \in StopResults :
          /\ err' = e
          /\ calls' = Append(calls, Call("Stop", e))
          /\ pcExec' = IF e # nil THEN "L201" ELSE "L223"
    /\ UNCHANGED <<stopStartErr, c, execRet, changes, received, relayWrites,
                   exits, runSide>>
    /\ UNCHANGED runGhost
    /\ UNCHANGED mgrVars

\* ShutdownCallback without the capability test
ShutdownCallback_AlwaysStop == "Stop"

\* if wsShutdown, ok := ws.i.(Shutdowner); ok: the callback a Shutdown
\* request invokes
ShutdownCallback == IF hasShutdowner THEN "Shutdown" ELSE "Stop"

\* case svc.Shutdown: err = wsShutdown.Shutdown(ws) or err = ws.i.Stop(ws);
\* if err != nil ... break loop
ExecShutdown ==
    /\ pcExec = "L208"
    /\ \E e \in IF ShutdownCallback = "Shutdown" THEN ShutdownResults
                                                  ELSE StopResults :
          /\ err' = e
          /\ calls' = Append(calls, Call(ShutdownCallback, e))
          /\ pcExec' = IF e # nil THEN "L214" ELSE "L223"
    /\ UNCHANGED <<stopStartErr, c, execRet, changes, received, relayWrites,
                   exits, runSide>>
    /\ UNCHANGED runGhost
    /\ UNCHANGED mgrVars

(***************************************************************************)
(* Run.                                                                    *)
(***************************************************************************)
execSide == <<pcExec, c, err, execRet, changes, received, relayWrites, exits>>

\* a call of Run(): a fresh activation, with this run's logs empty
RunCall ==
    /\ pcRun = "idle"
    /\ runNo < MaxRuns
    /\ runNo' = runNo + 1
    /\ pcRun' = "L410"
    /\ runErr' = nil
    /\ startStopErr' = nil
    /\ runRet' = NoRet
    /\ pcExec' = "idle"
    /\ c' = NoRequest
    /\ err' = nil
    /\ execRet' = NoRet
    /\ changes' = <<>>
    /\ calls' = <<>>
    /\ received' = <<>>
    /\ relayWrites' = <<>>
    /\ exits' = <<>>
    /\ relayAtCall' = stopStartErr
    /\ interrupts' = 0
    /\ UNCHANGED <<interactive, hasShutdowner, stopStartErr>>
    /\ UNCHANGED mgrVars

\* RunReset without the reset of the relay
RunReset_NoReset ==
    /\ pcRun = "L410"
    /\ pcRun' = IF ~interactive THEN "L416" ELSE "L426"
    /\ UNCHANGED <<interactive, hasShutdowner, stopStartErr, runNo, runErr,
                   startStopErr, runRet, execSide, calls>>
    /\ UNCHANGED runGhost
    /\ UNCHANGED mgrVars

\* ws.setError(nil) ; if !interactive
RunReset ==
    /\ pcRun = "L410"
    /\ stopStartErr' = setError(nil)
    /\ pcRun' = IF ~interactive THEN "L416" ELSE "L426"
    /\ UNCHANGED <<interactive, hasShutdowner, runNo, runErr, startStopErr,
                   runRet, execSide, calls>>
    /\ UNCHANGED runGhost
    /\ UNCHANGED mgrVars

\* runErr := svc.Run(ws.Name, ws): the host cannot start the dispatcher and
\* svc.Run returns its error without calling Execute
SvcRunFails ==
    /\ pcRun = "L416"
    /\ \E e \in SvcRunResults \ {nil} : runErr' = e
    /\ pcRun' = "L417"
    /\ UNCHANGED <<interactive, hasShutdowner, stopStartErr, runNo,
                   startStopErr, runRet, execSide, calls>>
    /\ UNCHANGED runGhost
    /\ UNCHANGED mgrVars

\* SvcRunDispatch with svc.Run started on a context of its own, Run() going
\* on to read the relay at once
SvcRunDispatch_Async ==
    /\ pcRun = "L416"
    /\ pcExec = "idle"
    /\ pcExec' = "L184"
    /\ pcRun' = "L417"
    /\ UNCHANGED <<interactive, hasShutdowner, stopStartErr, runNo, runErr,
                   startStopErr, runRet, c, err, execRet, changes, calls,
                   received, relayWrites, exits>>
    /\ UNCHANGED runGhost
    /\ UNCHANGED mgrVars

\* svc.Run: the host calls ws.Execute on a context it owns, Run() blocked
SvcRunDispatch ==
    /\ pcRun = "L416"
    /\ pcExec = "idle"
    /\ pcExec' = "L184"
    /\ pcRun' = "L416w"
    /\ UNCHANGED <<interactive, hasShutdowner, stopStartErr, runNo, runErr,
                   startStopErr, runRet, c, err, execRet, changes, calls,
                   received, relayWrites, exits>>
    /\ UNCHANGED runGhost
    /\ UNCHANGED mgrVars

\* svc.Run returns, with or without an error of its own, once Execute has
\* returned
SvcRunReturns ==
    /\ pcRun = "L416w"
    /\ pcExec = "done"
    /\ \E e \in SvcRunResults : runErr' = e
    /\ pcRun' = "L417"
    /\ UNCHANGED <<interactive, hasShutdowner, stopStartErr, runNo,
                   startStopErr, runRet, execSide, calls>>
    /\ UNCHANGED runGhost
    /\ UNCHANGED mgrVars

\* startStopErr := ws.getError()
RunGetError ==
    /\ pcRun = "L417"
    /\ startStopErr' = getError
    /\ pcRun' = "L418"
    /\ UNCHANGED <<interactive, hasShutdowner, stopStartErr, runNo, runErr,
                   runRet, execSide, calls>>
    /\ UNCHANGED runGhost
    /\ UNCHANGED mgrVars

\* RunResult preferring the run primitive's error
RunResult_PrefersHost(relayErr, hostErr) ==
    IF hostErr # nil THEN hostErr
    ELSE IF relayErr # nil THEN relayErr
    ELSE nil

\* if startStopErr != nil { return startStopErr }
\* if runErr != nil { return runErr } ; return nil
RunResult(relayErr, hostErr) ==
    IF relayErr # nil THEN relayErr
    ELSE IF hostErr # nil THEN hostErr
    ELSE nil

RunReturn ==
    /\ pcRun = "L418"
    /\ runRet' = RunResult(startStopErr, runErr)
    /\ pcRun' = "idle"
    /\ UNCHANGED <<interactive, hasShutdowner, stopStartErr, runNo, runErr,
                   startStopErr, execSide, calls>>
    /\ UNCHANGED runGhost
    /\ UNCHANGED mgrVars

\* RunInteractiveStart without the return on a failed Start
RunInteractiveStart_NoEarlyReturn ==
    /\ pcRun = "L426"
    /\ \E e \in StartResults :
          /\ calls' = Append(calls, Call("Start", e))
          /\ runRet' = runRet
          /\ pcRun' = "L435"
    /\ UNCHANGED <<interactive, hasShutdowner, stopStartErr, runNo, runErr,
                   startStopErr, execSide>>
    /\ UNCHANGED runGhost
    /\ UNCHANGED mgrVars

\* interactive: err := ws.i.Start(ws) ; if err != nil { return err }
RunInteractiveStart ==
    /\ pcRun = "L426"
    /\ \E e \in StartResults :
          /\ calls' = Append(calls, Call("Start", e))
          /\ IF e # nil
             THEN runRet' = e /\ pcRun' = "idle"
             ELSE runRet' = runRet /\ pcRun' = "L435"
    /\ UNCHANGED <<interactive, hasShutdowner, stopStartErr, runNo, runErr,
                   startStopErr, execSide>>
    /\ UNCHANGED runGhost
    /\ UNCHANGED mgrVars

\* <-sigChan: os.Interrupt arrives
RunInterrupt ==
    /\ pcRun = "L435"
    /\ pcRun' = "L437"
    /\ interrupts' = interrupts + 1
    /\ UNCHANGED relayAtCall
    /\ UNCHANGED <<interactive, hasShutdowner, stopStartErr, runNo, runErr,
                   startStopErr, runRet, execSide, calls>>
    /\ UNCHANGED mgrVars

\* return ws.i.Stop(ws)
RunInteractiveStop ==
    /\ pcRun = "L437"
    /\ \E e \in StopResults :
          /\ calls' = Append(calls, Call("Stop", e))
          /\ runRet' = e
    /\ pcRun' = "idle"
    /\ UNCHANGED <<interactive, hasShutdowner, stopStartErr, runNo, runErr,
                   startStopErr, execSide>>
    /\ UNCHANGED runGhost
    /\ UNCHANGED mgrVars

Run ==
    \/ RunCall
    \/ RunReset
    \/ SvcRunFails
    \/ SvcRunDispatch
    \/ SvcRunReturns
    \/ RunGetError
    \/ RunReturn
    \/ RunInteractiveStart
    \/ RunInterrupt
    \/ RunInteractiveStop

InitRun ==
    /\ interactive \in BOOLEAN
    /\ hasShutdowner \in BOOLEAN
    /\ stopStartErr = nil
    /\ pcRun = "idle"
    /\ runNo = 0
    /\ runErr = nil
    /\ startStopErr = nil
    /\ runRet = NoRet
    /\ pcExec = "idle"
    /\ c = NoRequest
    /\ err = nil
    /\ execRet = NoRet
    /\ changes = <<>>
    /\ calls = <<>>
    /\ received = <<>>
    /\ relayWrites = <<>>
    /\ exits = <<>>
    /\ relayAtCall = nil
    /\ interrupts = 0

\* no service-manager operation is called under Spec
MgrIdle ==
    /\ installed = TRUE
    /\ svcState = "Running"
    /\ stopping = FALSE
    /\ mgrOpen = 0
    /\ svcOpen = 0
    /\ op = "none"
    /\ opNo = 0
    /\ pcM = "idle"
    /\ holdM = FALSE
    /\ holdS = FALSE
    /\ status = "none"
    /\ waitRet = NoRet
    /\ opErr = nil
    /\ opRet = NoRet
    /\ statusRet = NoRet
    /\ now = 0
    /\ killTimeout = 0
    /\ timeoutAt = 0
    /\ ticksTaken = 0
    /\ scmLog = <<>>
    /\ stopRet = NoRet
    /\ marked = FALSE
    /\ envValue = NoEnvironment
    /\ atCall = Registration

Init == InitRun /\ MgrIdle

Next ==
    \/ RunCall
    \/ RunReset
    \/ SvcRunFails
    \/ SvcRunDispatch
    \/ SvcRunReturns
    \/ RunGetError
    \/ RunReturn
    \/ RunInteractiveStart
    \/ RunInterrupt
    \/ RunInteractiveStop
    \/ ExecStartPending
    \/ ExecStart
    \/ ExecSetError
    \/ ExecReturn
    \/ ExecRunning
    \/ ExecReceive
    \/ ExecInterrogate
    \/ ExecStopPending
    \/ ExecStop
    \/ ExecShutdown

Spec == Init /\ [][Next]_vars


(***************************************************************************)
(* The service-manager operations: Status, Start, Stop, Restart.           *)
(*                                                                         *)
(* Time is counted in units of 25 ms, so that a deadline need not fall on  *)
(* a tick.  The calls to the manager take no time: time passes only while  *)
(* stopWait is blocked in its select with neither channel ready.           *)
(***************************************************************************)
\* timeDuration := time.Millisecond * 50, in units of 25 ms
TickUnits == 2

\* the raw states a service can be in (svc.State)
RawStates == {"Stopped", "StartPending", "StopPending", "Running",
              "ContinuePending", "PausePending", "Paused"}

\* a state value that is none of the seven Status() names, should the
\* manager report one (svc.State is a uint32)
OtherState == "State(0)"

\* ws.EnvVars: empty, or some variables
EnvVars == {"empty", "envB"}

\* the operations of the model
Ops == {"Status", "Start", "Stop", "Restart", "Install", "Uninstall"}

\* the values getStopTimeout() may return: the value of
\* WaitToKillServiceTimeout or the default, here within MaxKillTimeout
getStopTimeout == 0..MaxKillTimeout

\* Deadline without the two intervals of slack
Deadline_NoSlack(kt) == kt

\* time.After(getStopTimeout() + (timeDuration * 2))
Deadline(kt) == kt + (TickUnits * 2)

\* WaitOver testing the collapsed status, as Status() reports it
WaitOver_Collapsed(st) ==
    st \in {"PausePending", "Paused", "ContinuePending", "StopPending",
            "Stopped"}

\* for status.State != svc.Stopped: the test that ends the wait
WaitOver(st) == st = "Stopped"

\* Collapse with StopPending counted as running
Collapse_StopPendingRuns(st) ==
    CASE st \in {"StartPending", "Running", "StopPending"} -> "StatusRunning"
      [] st \in {"PausePending", "Paused", "ContinuePending", "Stopped"}
            -> "StatusStopped"
      [] OTHER -> "StatusUnknown"

\* switch status.State in Status(): the collapsed status
Collapse(st) ==
    CASE st \in {"StartPending", "Running"} -> "StatusRunning"
      [] st \in {"PausePending", "Paused", "ContinuePending", "StopPending",
                 "Stopped"} -> "StatusStopped"
      [] OTHER -> "StatusUnknown"

\* one call to the service control manager
ScmCall(call, ret) == Append(scmLog, [call |-> call, ret |-> ret, at |-> now])

scmSide == <<installed, svcState, stopping>>
timers == <<now, killTimeout, timeoutAt, ticksTaken>>

\* the first statement of the operation: Install() starts with
\* ws.execPath(), the others (Uninstall() by its ws.Stop()) with lowPrivMgr()
Entry(o) == IF o = "Install" THEN "L270" ELSE "lowPrivMgr"

\* a call of Status(), Start(), Stop(), Restart(), Install() or Uninstall()
OpCall ==
    /\ pcM \in {"idle", "done"}
    /\ opNo < MaxOps
    /\ opNo' = opNo + 1
    /\ \E o \in Ops :
          /\ op' = o
          /\ pcM' = Entry(o)
    /\ holdM' = FALSE
    /\ holdS' = FALSE
    /\ status' = "none"
    /\ waitRet' = NoRet
    /\ opErr' = nil
    /\ opRet' = NoRet
    /\ statusRet' = NoRet
    /\ now' = 0
    /\ killTimeout' = 0
    /\ timeoutAt' = 0
    /\ ticksTaken' = 0
    /\ scmLog' = <<>>
    /\ stopRet' = NoRet
    /\ atCall' = Registration
    /\ UNCHANGED <<scmSide, mgrOpen, svcOpen, marked, envValue>>
    /\ UNCHANGED runVars

\* m, err := lowPrivMgr() ; if err != nil { return err } ; defer m.Disconnect()
lowPrivMgr ==
    /\ pcM = "lowPrivMgr"
    /\ \E e \in {nil, "EConnect"} :
          /\ scmLog' = ScmCall("OpenSCManager", e)
          /\ IF e = nil
             THEN /\ mgrOpen' = mgrOpen + 1
                  /\ holdM' = TRUE
                  /\ pcM' = "lowPrivSvc"
                  /\ opErr' = opErr
             ELSE /\ opErr' = e
                  /\ pcM' = "return"
                  /\ UNCHANGED <<mgrOpen, holdM>>
    /\ UNCHANGED <<scmSide, svcOpen, op, opNo, holdS, status, waitRet, opRet,
                   statusRet, timers>>
    /\ UNCHANGED regSide
    /\ UNCHANGED runVars

\* the position after the handles are open
Body(o) ==
    CASE o = "Status" -> "L456"
      [] o = "Start" -> "L493"
      [] o = "Stop" -> "L536"
      [] o = "Restart" -> "L536"
      [] o = "Uninstall" -> "L536"

\* lowPrivSvc with the operation going on after a failed open
lowPrivSvc_IgnoresError ==
    /\ pcM = "lowPrivSvc"
    /\ \E e \in IF installed THEN {nil, "EOpen"}
                             ELSE {"errnoServiceDoesNotExist", "EOpen"} :
          /\ scmLog' = ScmCall("OpenService", e)
          /\ pcM' = Body(op)
          /\ IF e = nil
             THEN /\ svcOpen' = svcOpen + 1
                  /\ holdS' = TRUE
                  /\ opErr' = opErr
             ELSE /\ opErr' = e
                  /\ UNCHANGED <<svcOpen, holdS>>
    /\ UNCHANGED <<scmSide, mgrOpen, op, opNo, holdM, status, waitRet, opRet,
                   statusRet, timers>>
    /\ UNCHANGED regSide
    /\ UNCHANGED runVars

\* s, err := lowPrivSvc(m, ws.Name) ; if err != nil { return err } ;
\* defer s.Close().  In Status(), errnoServiceDoesNotExist becomes
\* ErrNotInstalled.
lowPrivSvc ==
    /\ pcM = "lowPrivSvc"
    /\ \E e \in IF installed THEN {nil, "EOpen"}
                             ELSE {"errnoServiceDoesNotExist", "EOpen"} :
          /\ scmLog' = ScmCall("OpenService", e)
          /\ IF e = nil
             THEN /\ svcOpen' = svcOpen + 1
                  /\ holdS' = TRUE
                  /\ pcM' = Body(op)
                  /\ opErr' = opErr
             ELSE /\ opErr' = IF op = "Status" /\ e = "errnoServiceDoesNotExist"
                                 THEN "ErrNotInstalled" ELSE e
                  /\ pcM' = "return"
                  /\ UNCHANGED <<svcOpen, holdS>>
    /\ UNCHANGED <<scmSide, mgrOpen, op, opNo, holdM, status, waitRet, opRet,
                   statusRet, timers>>
    /\ UNCHANGED regSide
    /\ UNCHANGED runVars

\* the deferred s.Close() and m.Disconnect(), and the return.  The
\* ws.Stop() that Uninstall() calls first returns to Uninstall(), which
\* returns its error (355-357) or goes on to mgr.Connect() (359).
Return ==
    /\ pcM = "return"
    /\ svcOpen' = IF holdS THEN svcOpen - 1 ELSE svcOpen
    /\ mgrOpen' = IF holdM THEN mgrOpen - 1 ELSE mgrOpen
    /\ holdS' = FALSE
    /\ holdM' = FALSE
    /\ IF op = "Uninstall" /\ stopRet = NoRet
       THEN /\ stopRet' = opErr
            /\ IF opErr = nil
               THEN pcM' = "L359" /\ opRet' = opRet
               ELSE pcM' = "done" /\ opRet' = opErr
       ELSE /\ stopRet' = stopRet
            /\ opRet' = opErr
            /\ pcM' = "done"
    /\ statusRet' = IF op = "Status"
                       THEN (IF opErr = nil THEN Collapse(status)
                                            ELSE "StatusUnknown")
                       ELSE statusRet
    /\ UNCHANGED <<scmSide, op, opNo, status, waitRet, opErr, timers, scmLog,
                   marked, envValue, atCall>>
    /\ UNCHANGED runVars

\* Status(): status, err := s.Query() ; if err != nil { return StatusUnknown, err }
StatusQuery ==
    /\ pcM = "L456"
    /\ \E r \in {svcState, OtherState, "EQuery"} :
          /\ scmLog' = ScmCall("Query", r)
          /\ IF r # "EQuery"
             THEN status' = r /\ pcM' = "L461" /\ opErr' = opErr
             ELSE status' = status /\ pcM' = "return" /\ opErr' = r
    /\ UNCHANGED <<scmSide, mgrOpen, svcOpen, op, opNo, holdM, holdS, waitRet,
                   opRet, statusRet, timers>>
    /\ UNCHANGED regSide
    /\ UNCHANGED runVars

\* Status(): switch status.State
StatusSwitch ==
    /\ pcM = "L461"
    /\ opErr' = IF Collapse(status) = "StatusUnknown" THEN "EUnknownStatus"
                                                     ELSE nil
    /\ pcM' = "return"
    /\ UNCHANGED <<scmSide, mgrOpen, svcOpen, op, opNo, holdM, holdS, status,
                   waitRet, opRet, statusRet, timers, scmLog>>
    /\ UNCHANGED regSide
    /\ UNCHANGED runVars

\* s.Start(): the manager starts a stopped service that is not marked for
\* deletion, or refuses
ServiceStart ==
    /\ \E e \in IF svcState = "Stopped" /\ ~marked
                   THEN {nil, "EStartService"}
                   ELSE {"EStartService"} :
          /\ scmLog' = ScmCall("Start", e)
          /\ opErr' = e
          /\ svcState' = IF e = nil THEN "StartPending" ELSE svcState
    /\ pcM' = "return"
    /\ UNCHANGED <<installed, stopping, mgrOpen, svcOpen, op, opNo, holdM,
                   holdS, status, waitRet, opRet, statusRet, timers>>
    /\ UNCHANGED regSide
    /\ UNCHANGED runVars

\* Start(): return s.Start()
StartStart ==
    /\ pcM = "L493"
    /\ ServiceStart

\* Restart(): return s.Start()
RestartStart ==
    /\ pcM = "L530"
    /\ ServiceStart

(***************************************************************************)
(* stopWait.                                                               *)
(***************************************************************************)
\* AfterStopWait with Restart not testing the error of stopWait
AfterStopWait_IgnoresErr(e) ==
    /\ waitRet' = e
    /\ opErr' = e
    /\ pcM' = IF op = "Restart" THEN "L530" ELSE "return"

\* stopWait returns e to its caller: Stop() returns it; Restart() returns
\* it if it is an error and goes on to s.Start() otherwise
AfterStopWait(e) ==
    /\ waitRet' = e
    /\ opErr' = e
    /\ pcM' = IF op = "Restart" /\ e = nil THEN "L530" ELSE "return"

\* the states in which the manager delivers a stop control to the service
AcceptsControl(st) == st \in {"Running", "Paused", "PausePending",
                             "ContinuePending"}

\* status, err := s.Control(svc.Stop) ; if err != nil { return err }
stopWaitControl ==
    /\ pcM = "L536"
    /\ \/ /\ AcceptsControl(svcState)
          /\ \E r \in {svcState, "StopPending", "Stopped"} :
                /\ svcState' = r
                /\ stopping' = (r # "Stopped")
                /\ status' = r
                /\ scmLog' = ScmCall("Control", r)
          /\ pcM' = "L543"
          /\ UNCHANGED <<waitRet, opErr>>
       \/ /\ scmLog' = ScmCall("Control", "EControl")
          /\ AfterStopWait("EControl")
          /\ UNCHANGED <<svcState, stopping, status>>
    /\ UNCHANGED <<installed, mgrOpen, svcOpen, op, opNo, holdM, holdS, opRet,
                   statusRet, timers>>
    /\ UNCHANGED regSide
    /\ UNCHANGED runVars

\* timeout := time.After(getStopTimeout() + (timeDuration * 2))
\* tick := time.NewTicker(timeDuration)
stopWaitTimers ==
    /\ pcM = "L543"
    /\ \E kt \in getStopTimeout :
          /\ killTimeout' = kt
          /\ timeoutAt' = Deadline(kt)
    /\ now' = 0
    /\ ticksTaken' = 0
    /\ pcM' = "L547"
    /\ UNCHANGED <<scmSide, mgrOpen, svcOpen, op, opNo, holdM, holdS, status,
                   waitRet, opErr, opRet, statusRet, scmLog>>
    /\ UNCHANGED regSide
    /\ UNCHANGED runVars

\* for status.State != svc.Stopped { ... } ; return nil
stopWaitLoop ==
    /\ pcM = "L547"
    /\ IF WaitOver(status)
       THEN AfterStopWait(nil)
       ELSE pcM' = "L548" /\ UNCHANGED <<waitRet, opErr>>
    /\ UNCHANGED <<scmSide, mgrOpen, svcOpen, op, opNo, holdM, holdS, status,
                   opRet, statusRet, timers, scmLog>>
    /\ UNCHANGED regSide
    /\ UNCHANGED runVars

\* a tick is waiting in tick.C
TickReady == now >= (ticksTaken + 1) * TickUnits

\* the timeout channel has fired
TimeoutReady == now >= timeoutAt

\* select: case <-tick.C
stopWaitTick ==
    /\ pcM = "L548"
    /\ TickReady
    /\ ticksTaken' = ticksTaken + 1
    /\ pcM' = "L550"
    /\ UNCHANGED <<scmSide, mgrOpen, svcOpen, op, opNo, holdM, holdS, status,
                   waitRet, opErr, opRet, statusRet, now, killTimeout,
                   timeoutAt, scmLog>>
    /\ UNCHANGED regSide
    /\ UNCHANGED runVars

\* status, err = s.Query() ; if err != nil { return err }
stopWaitQuery ==
    /\ pcM = "L550"
    /\ \E r \in {svcState, "EQuery"} :
          /\ scmLog' = ScmCall("Query", r)
          /\ IF r \in RawStates
             THEN status' = r /\ pcM' = "L547" /\ UNCHANGED <<waitRet, opErr>>
             ELSE status' = status /\ AfterStopWait(r)
    /\ UNCHANGED <<scmSide, mgrOpen, svcOpen, op, opNo, holdM, holdS, opRet,
                   statusRet, timers>>
    /\ UNCHANGED regSide
    /\ UNCHANGED runVars

\* select: case <-timeout: return fmt.Errorf("stop service %s timeout", ...)
stopWaitTimeout ==
    /\ pcM = "L548"
    /\ TimeoutReady
    /\ scmLog' = ScmCall("timeout", "ETimeout")
    /\ AfterStopWait("ETimeout")
    /\ UNCHANGED <<scmSide, mgrOpen, svcOpen, op, opNo, holdM, holdS, status,
                   opRet, statusRet, timers>>
    /\ UNCHANGED regSide
    /\ UNCHANGED runVars

\* time passes while stopWait is blocked in select with no channel ready
TimePasses ==
    /\ pcM = "L548"
    /\ ~TickReady
    /\ ~TimeoutReady
    /\ now' = now + 1
    /\ UNCHANGED <<scmSide, mgrOpen, svcOpen, op, opNo, pcM, holdM, holdS,
                   status, waitRet, opErr, opRet, statusRet, killTimeout,
                   timeoutAt, ticksTaken, scmLog>>
    /\ UNCHANGED regSide
    /\ UNCHANGED runVars

\* the service goes on by itself: a pending state completes, and a service
\* that accepted a stop control reports StopPending and then Stopped
ServiceProgress ==
    /\ \/ svcState = "StartPending" /\ ~stopping /\ svcState' = "Running"
       \/ svcState = "ContinuePending" /\ ~stopping /\ svcState' = "Running"
       \/ svcState = "PausePending" /\ ~stopping /\ svcState' = "Paused"
       \/ stopping /\ svcState # "StopPending" /\ svcState' = "StopPending"
       \/ svcState = "StopPending" /\ svcState' = "Stopped"
    /\ stopping' = (stopping /\ svcState' # "Stopped")
    /\ UNCHANGED <<installed, mgrOpen, svcOpen, op, opNo, pcM, holdM, holdS,
                   status, waitRet, opErr, opRet, statusRet, timers, scmLog>>
    /\ UNCHANGED regSide
    /\ UNCHANGED runVars

(***************************************************************************)
(* Install, Uninstall and uninstallWait.                                   *)
(*                                                                         *)
(* The manager removes the entry of a service marked for deletion once no  *)
(* handle to the service is open.                                          *)
(***************************************************************************)
\* timeDuration := time.Millisecond * 100, in units of 25 ms
UninstallTickUnits == 4

\* time.After(getStopTimeout() + (timeDuration * 2)) in uninstallWait
UninstallDeadline(kt) == kt + (UninstallTickUnits * 2)

\* what Install(), Uninstall() and uninstallWait leave alone
opFrame == <<op, opNo, status, waitRet, opRet, statusRet, stopRet, atCall>>

\* exepath, err := ws.execPath() ; if err != nil { return err }
InstallExecPath ==
    /\ pcM = "L270"
    /\ \E e \in {nil, "EExecPath"} :
          /\ opErr' = e
          /\ pcM' = IF e = nil THEN "L275" ELSE "return"
    /\ UNCHANGED <<scmSide, mgrOpen, svcOpen, holdM, holdS, timers, scmLog,
                   marked, envValue, opFrame>>
    /\ UNCHANGED runVars

\* m, err := mgr.Connect() ; if err != nil { return err } ;
\* defer m.Disconnect()
Connect(next) ==
    /\ \E e \in {nil, "EConnect"} :
          /\ scmLog' = ScmCall("Connect", e)
          /\ IF e = nil
             THEN /\ mgrOpen' = mgrOpen + 1
                  /\ holdM' = TRUE
                  /\ pcM' = next
                  /\ opErr' = opErr
             ELSE /\ opErr' = e
                  /\ pcM' = "return"
                  /\ UNCHANGED <<mgrOpen, holdM>>
    /\ UNCHANGED <<scmSide, svcOpen, holdS, timers, marked, envValue, opFrame>>
    /\ UNCHANGED runVars

InstallConnect ==
    /\ pcM = "L275"
    /\ Connect("L281")

\* if err := ws.setEnvironmentVariablesInRegistry(); err != nil { return err }
\* Nothing is done for empty ws.EnvVars; otherwise the key is created or
\* opened, the value Environment set, and the key closed, each of which may
\* fail.
InstallEnv ==
    /\ pcM = "L281"
    /\ \E ev \in EnvVars :
          IF ev = "empty"
          THEN /\ pcM' = "L285"
               /\ UNCHANGED <<envValue, opErr>>
          ELSE \E e \in {nil, "ECreateKey", "ESetValue", "ECloseKey"} :
                  /\ envValue' = IF e \in {nil, "ECloseKey"} THEN ev
                                                            ELSE envValue
                  /\ opErr' = e
                  /\ pcM' = IF e = nil THEN "L285" ELSE "return"
    /\ UNCHANGED <<scmSide, mgrOpen, svcOpen, holdM, holdS, timers, scmLog,
                   marked, opFrame>>
    /\ UNCHANGED runVars

\* s, err := m.OpenService(ws.Name) ;
\* if err == nil { s.Close() ; return "service already exists" }
InstallOpen ==
    /\ pcM = "L285"
    /\ \E e \in IF installed THEN {nil, "EOpen"}
                             ELSE {"errnoServiceDoesNotExist", "EOpen"} :
          /\ scmLog' = ScmCall("OpenService", e)
          /\ IF e = nil
             THEN opErr' = "EAlreadyExists" /\ pcM' = "return"
             ELSE opErr' = opErr /\ pcM' = "L305"
    /\ UNCHANGED <<scmSide, mgrOpen, svcOpen, holdM, holdS, timers, marked,
                   envValue, opFrame>>
    /\ UNCHANGED runVars

\* s, err = m.CreateService(...) ; if err != nil { return err }
\* The handle s is open from here; its Close is deferred at line 343 only.
InstallCreate ==
    /\ pcM = "L305"
    /\ \E e \in IF installed THEN {"ECreate"} ELSE {nil, "ECreate"} :
          /\ scmLog' = ScmCall("CreateService", e)
          /\ IF e = nil
             THEN /\ installed' = TRUE
                  /\ svcState' = "Stopped"
                  /\ stopping' = FALSE
                  /\ svcOpen' = svcOpen + 1
                  /\ opErr' = opErr
                  /\ pcM' = "L318"
             ELSE /\ opErr' = e
                  /\ pcM' = "return"
                  /\ UNCHANGED <<scmSide, svcOpen>>
    /\ UNCHANGED <<mgrOpen, holdM, holdS, timers, marked, envValue, opFrame>>
    /\ UNCHANGED runVars

\* if onFailure != "" { if err := s.SetRecoveryActions(...); err != nil
\* { return err } }
InstallRecovery ==
    /\ pcM = "L318"
    /\ \E onFailure \in BOOLEAN :
          IF ~onFailure
          THEN /\ pcM' = "L343"
               /\ UNCHANGED <<opErr, scmLog>>
          ELSE \E e \in {nil, "ERecovery"} :
                  /\ scmLog' = ScmCall("SetRecoveryActions", e)
                  /\ opErr' = e
                  /\ pcM' = IF e = nil THEN "L343" ELSE "return"
    /\ UNCHANGED <<scmSide, mgrOpen, svcOpen, holdM, holdS, timers, marked,
                   envValue, opFrame>>
    /\ UNCHANGED runVars

\* defer s.Close() ; err = eventlog.InstallAsEventCreate(...) ;
\* an error that does not say "exists": s.Delete() ; return the error
InstallEventLog ==
    /\ pcM = "L343"
    /\ holdS' = TRUE
    /\ \E e \in {nil, "EExists", "EEventLog"} :
          IF e = "EEventLog"
          THEN /\ \E de \in IF marked THEN {"EDelete"} ELSE {nil, "EDelete"} :
                     /\ scmLog' = ScmCall("Delete", de)
                     /\ marked' = (marked \/ de = nil)
               /\ opErr' = "ESetupEventLogSource"
          ELSE /\ opErr' = nil
               /\ UNCHANGED <<scmLog, marked>>
    /\ pcM' = "return"
    /\ UNCHANGED <<scmSide, mgrOpen, svcOpen, holdM, timers, envValue,
                   opFrame>>
    /\ UNCHANGED runVars

UninstallConnect ==
    /\ pcM = "L359"
    /\ Connect("L364")

\* s, err := m.OpenService(ws.Name) ; errnoServiceDoesNotExist: return nil ;
\* another error: return "error open service" ; defer s.Close()
UninstallOpen ==
    /\ pcM = "L364"
    /\ \E e \in IF installed THEN {nil, "EOpen"}
                             ELSE {"errnoServiceDoesNotExist", "EOpen"} :
          /\ scmLog' = ScmCall("OpenService", e)
          /\ IF e = nil
             THEN /\ svcOpen' = svcOpen + 1
                  /\ holdS' = TRUE
                  /\ opErr' = opErr
                  /\ pcM' = "L373"
             ELSE /\ opErr' = IF e = "errnoServiceDoesNotExist"
                                 THEN nil ELSE "EErrorOpenService"
                  /\ pcM' = "return"
                  /\ UNCHANGED <<svcOpen, holdS>>
    /\ UNCHANGED <<scmSide, mgrOpen, holdM, timers, marked, envValue,
                   opFrame>>
    /\ UNCHANGED runVars

\* err = s.Delete() ; if err != nil { return err }
UninstallDelete ==
    /\ pcM = "L373"
    /\ \E e \in IF marked THEN {"EDelete"} ELSE {nil, "EDelete"} :
          /\ scmLog' = ScmCall("Delete", e)
          /\ marked' = (marked \/ e = nil)
          /\ opErr' = e
          /\ pcM' = IF e = nil THEN "L378" ELSE "return"
    /\ UNCHANGED <<scmSide, mgrOpen, svcOpen, holdM, holdS, timers, envValue,
                   opFrame>>
    /\ UNCHANGED runVars

\* err = eventlog.Remove(ws.Name) ; an error other than ERROR_FILE_NOT_FOUND
\* is returned
UninstallEventLog ==
    /\ pcM = "L378"
    /\ \E e \in {nil, "ERROR_FILE_NOT_FOUND", "EEventLog"} :
          /\ opErr' = IF e = "EEventLog" THEN "ERemoveEventLogSource" ELSE nil
          /\ pcM' = IF e = "EEventLog" THEN "return" ELSE "L389"
    /\ UNCHANGED <<scmSide, mgrOpen, svcOpen, holdM, holdS, timers, scmLog,
                   marked, envValue, opFrame>>
    /\ UNCHANGED runVars

\* uninstallWait: timeout := time.After(getStopTimeout() + (timeDuration * 2))
\* tick := time.NewTicker(timeDuration)
uninstallWaitTimers ==
    /\ pcM = "L389"
    /\ \E kt \in getStopTimeout :
          /\ killTimeout' = kt
          /\ timeoutAt' = UninstallDeadline(kt)
    /\ now' = 0
    /\ ticksTaken' = 0
    /\ pcM' = "L393"
    /\ UNCHANGED <<scmSide, mgrOpen, svcOpen, holdM, holdS, opErr, scmLog,
                   marked, envValue, opFrame>>
    /\ UNCHANGED runVars

\* a tick is waiting in uninstallWait's tick.C
UninstallTickReady == now >= (ticksTaken + 1) * UninstallTickUnits

\* select: case <-tick.C
uninstallWaitTick ==
    /\ pcM = "L393"
    /\ UninstallTickReady
    /\ ticksTaken' = ticksTaken + 1
    /\ pcM' = "L395"
    /\ UNCHANGED <<scmSide, mgrOpen, svcOpen, holdM, holdS, opErr, now,
                   killTimeout, timeoutAt, scmLog, marked, envValue, opFrame>>
    /\ UNCHANGED runVars

\* svc, err := m.OpenService(ws.Name) ; errnoServiceDoesNotExist: return nil ;
\* another error: return "error open service" ; svc.Close()
uninstallWaitOpen ==
    /\ pcM = "L395"
    /\ \E e \in IF installed THEN {nil, "EOpen"}
                             ELSE {"errnoServiceDoesNotExist", "EOpen"} :
          /\ scmLog' = ScmCall("OpenService", e)
          /\ IF e = nil
             THEN /\ opErr' = opErr
                  /\ pcM' = "L393"
             ELSE /\ opErr' = IF e = "errnoServiceDoesNotExist"
                                 THEN nil ELSE "EErrorOpenService"
                  /\ pcM' = "return"
    /\ UNCHANGED <<scmSide, mgrOpen, svcOpen, holdM, holdS, timers, marked,
                   envValue, opFrame>>
    /\ UNCHANGED runVars

\* select: case <-timeout: return "delete service timeout"
uninstallWaitTimeout ==
    /\ pcM = "L393"
    /\ TimeoutReady
    /\ scmLog' = ScmCall("deleteTimeout", "EDeleteTimeout")
    /\ opErr' = "EDeleteTimeout"
    /\ pcM' = "return"
    /\ UNCHANGED <<scmSide, mgrOpen, svcOpen, holdM, holdS, timers, marked,
                   envValue, opFrame>>
    /\ UNCHANGED runVars

\* time passes while uninstallWait is blocked in select with no channel
\* ready
UninstallTimePasses ==
    /\ pcM = "L393"
    /\ ~UninstallTickReady
    /\ ~TimeoutReady
    /\ now' = now + 1
    /\ UNCHANGED <<scmSide, mgrOpen, svcOpen, pcM, holdM, holdS, opErr,
                   killTimeout, timeoutAt, ticksTaken, scmLog, marked,
                   envValue, opFrame>>
    /\ UNCHANGED runVars

\* the manager removes the entry of a service marked for deletion, and its
\* registry key, once every handle to the service is closed
ScmRemoves ==
    /\ marked
    /\ svcOpen = 0
    /\ installed' = FALSE
    /\ marked' = FALSE
    /\ svcState' = "Stopped"
    /\ stopping' = FALSE
    /\ envValue' = NoEnvironment
    /\ UNCHANGED <<mgrOpen, svcOpen, pcM, holdM, holdS, opErr, timers, scmLog,
                   opFrame>>
    /\ UNCHANGED runVars

\* Run() is not called under SpecMgr
RunIdle ==
    /\ interactive = FALSE
    /\ hasShutdowner = FALSE
    /\ stopStartErr = nil
    /\ pcRun = "idle"
    /\ runNo = 0
    /\ runErr = nil
    /\ startStopErr = nil
    /\ runRet = NoRet
    /\ pcExec = "idle"
    /\ c = NoRequest
    /\ err = nil
    /\ execRet = NoRet
    /\ changes = <<>>
    /\ calls = <<>>
    /\ received = <<>>
    /\ relayWrites = <<>>
    /\ exits = <<>>
    /\ relayAtCall = nil
    /\ interrupts = 0

InitMgr ==
    /\ installed \in BOOLEAN
    /\ svcState \in IF installed THEN RawStates ELSE {"Stopped"}
    /\ stopping = FALSE
    /\ mgrOpen = 0
    /\ svcOpen = 0
    /\ op = "none"
    /\ opNo = 0
    /\ pcM = "idle"
    /\ holdM = FALSE
    /\ holdS = FALSE
    /\ status = "none"
    /\ waitRet = NoRet
    /\ opErr = nil
    /\ opRet = NoRet
    /\ statusRet = NoRet
    /\ now = 0
    /\ killTimeout = 0
    /\ timeoutAt = 0
    /\ ticksTaken = 0
    /\ scmLog = <<>>
    /\ stopRet = NoRet
    /\ marked = FALSE
    /\ envValue \in IF installed THEN {NoEnvironment, "envA"}
                               ELSE {NoEnvironment}
    /\ atCall = Registration

NextMgr ==
    \/ OpCall
    \/ lowPrivMgr
    \/ lowPrivSvc
    \/ Return
    \/ StatusQuery
    \/ StatusSwitch
    \/ StartStart
    \/ RestartStart
    \/ stopWaitControl
    \/ stopWaitTimers
    \/ stopWaitLoop
    \/ stopWaitTick
    \/ stopWaitQuery
    \/ stopWaitTimeout
    \/ TimePasses
    \/ ServiceProgress
    \/ InstallExecPath
    \/ InstallConnect
    \/ InstallEnv
    \/ InstallOpen
    \/ InstallCreate
    \/ InstallRecovery
    \/ InstallEventLog
    \/ UninstallConnect
    \/ UninstallOpen
    \/ UninstallDelete
    \/ UninstallEventLog
    \/ uninstallWaitTimers
    \/ uninstallWaitTick
    \/ uninstallWaitOpen
    \/ uninstallWaitTimeout
    \/ UninstallTimePasses
    \/ ScmRemoves

InitSpecMgr == RunIdle /\ InitMgr

SpecMgr == InitSpecMgr /\ [][NextMgr]_vars

(***************************************************************************)
(* Properties of Run and Execute, checked under Spec.                      *)
(***************************************************************************)
Last(q) == q[Len(q)]

IsPrefix(p, q) == Len(p) <= Len(q) /\ \A i \in 1..Len(p) : p[i] = q[i]

RECURSIVE Statuses(_)
\* the statuses of a sequence of sends
Statuses(q) ==
    IF q = <<>> THEN <<>> ELSE <<q[1].status>> \o Statuses(Tail(q))

IsEcho(m) == m.line = 197
IsOriginated(m) == m.line # 197

\* the statuses Execute originates, as opposed to those it echoes for
\* Interrogate
Originated == Statuses(SelectSeq(changes, IsOriginated))

\* the statuses Execute echoed for Interrogate
Echoed == Statuses(SelectSeq(changes, IsEcho))

LifecycleOrder ==
    << Status("StartPending", {}),
       Status("Running", {"Stop", "Shutdown"}),
       Status("StopPending", {}) >>

IsTerminal(req) == req.Cmd \in {"Stop", "Shutdown"}
IsInterrogate(req) == req.Cmd = "Interrogate"
IsStopCall(k) == k.fn = "Stop"
IsShutdownCall(k) == k.fn = "Shutdown"
IsFailedCall(k) == k.ret # nil

\* Execute has been entered in this Run()
ExecEntered == pcExec # "idle"

\* positions of Execute after the callback of a Stop or Shutdown request
\* has returned
AfterStopCall == {"L201", "L202", "L223", "done"}
AfterShutdownCall == {"L214", "L215", "L223", "done"}

\* client.Start() returned success in this Execute
StartSucceeded == calls # <<>> /\ calls[1] = Call("Start", nil)

\* C1: the statuses Execute originates come in the fixed order StartPending,
\* Running with accepted commands {Stop, Shutdown}, StopPending: the sends
\* so far are a prefix of that order (each at most once, none reordered),
\* StartPending is the first send of all, Running is sent only after
\* client.Start() returned success and is not skipped once it did, and
\* StopPending is sent only after Running and before the Stop or Shutdown
\* callback is invoked.
C1_EmissionOrder ==
    /\ IsPrefix(Originated, LifecycleOrder)
    /\ changes # <<>> =>
          changes[1] = [status |-> Status("StartPending", {}), line |-> 184]
    /\ (ExecEntered /\ pcExec # "L184") => Len(Originated) >= 1
    /\ Len(Originated) >= 2 => StartSucceeded
    /\ (ExecEntered /\ StartSucceeded /\ pcExec # "L191") =>
          Len(Originated) >= 2
    /\ received = <<>> => Len(Originated) <= 2
    /\ (ExecEntered /\ Len(calls) >= 2) => Len(Originated) = 3
    /\ Len(Originated) = 3 => IsTerminal(Last(received))

\* a run that went through all three statuses and returned
C1_Witness ==
    /\ pcExec = "done"
    /\ Originated = LifecycleOrder
    /\ Len(changes) > 3

\* C2: in non-interactive mode Run() returns the error a client callback
\* failed with in the dispatch loop whenever there is one, whatever the
\* host's run primitive returned; otherwise it returns the run primitive's
\* own error, which is nil when both are empty.
C2_RunPrefersRelay ==
    (~interactive /\ runNo > 0 /\ pcRun = "idle") =>
        /\ (calls # <<>> /\ IsFailedCall(Last(calls))) =>
              /\ relayWrites = <<Last(calls).ret>>
              /\ runRet = Last(calls).ret
        /\ (calls = <<>> \/ ~IsFailedCall(Last(calls))) =>
              /\ relayWrites = <<>>
              /\ runRet = runErr

\* client.Start() failed with EStart, svc.Run itself returned nil, and Run()
\* returned EStart
C2_Witness ==
    /\ ~interactive
    /\ pcRun = "idle"
    /\ calls = <<Call("Start", "EStart")>>
    /\ runErr = nil
    /\ runRet = "EStart"

\* C3: once a Stop request is received it is the last request received;
\* exactly one StopPending is sent, before client.Stop() is invoked, and it
\* is the last status sent; client.Stop() is invoked exactly once; after it
\* returned Execute only records the error (on failure) and returns, once,
\* with (false, 0) on success and (true, 2) on failure.
C3_StopRequest ==
    \A i \in 1..Len(received) :
        received[i].Cmd = "Stop" =>
            /\ i = Len(received)
            /\ Len(SelectSeq(calls, IsStopCall)) <= 1
            /\ Len(SelectSeq(calls, IsShutdownCall)) = 0
            /\ pcExec \in {"L199", "L200"} \cup AfterStopCall
            /\ pcExec = "L199" => Len(Originated) = 2
            /\ pcExec # "L199" =>
                  /\ Originated = LifecycleOrder
                  /\ Last(changes) =
                        [status |-> Status("StopPending", {}), line |-> 199]
            /\ pcExec \in {"L199", "L200"} => Len(calls) = 1
            /\ pcExec \in AfterStopCall =>
                  /\ Len(calls) = 2
                  /\ IsStopCall(Last(calls))
            /\ pcExec = "done" =>
                  /\ exits = <<execRet>>
                  /\ execRet = IF IsFailedCall(Last(calls))
                                  THEN <<TRUE, 2>> ELSE <<FALSE, 0>>
            /\ pcExec # "done" => exits = <<>>

\* Execute returned after a Stop request, preceded by another request, whose
\* client.Stop() failed
C3_Witness ==
    /\ pcExec = "done"
    /\ Len(received) >= 2
    /\ Last(received).Cmd = "Stop"
    /\ Last(calls) = Call("Stop", "EStop")

\* C4: once a Shutdown request is received it is the last request; the
\* client's Shutdown is invoked exactly once if the client has it, else
\* client.Stop() is invoked exactly once, never both, and after the callback
\* returned Execute only records the error (on failure) and returns.
C4_ShutdownRequest ==
    \A i \in 1..Len(received) :
        received[i].Cmd = "Shutdown" =>
            /\ i = Len(received)
            /\ pcExec \in {"L206", "L208"} \cup AfterShutdownCall
            /\ pcExec \in {"L206", "L208"} => Len(calls) = 1
            /\ pcExec \in AfterShutdownCall =>
                  /\ Len(calls) = 2
                  /\ Len(SelectSeq(calls, IsShutdownCall)) =
                        (IF hasShutdowner THEN 1 ELSE 0)
                  /\ Len(SelectSeq(calls, IsStopCall)) =
                        (IF hasShutdowner THEN 0 ELSE 1)
            /\ pcExec = "done" => exits = <<execRet>>
            /\ pcExec # "done" => exits = <<>>

\* a Shutdown request handled by a client without the Shutdown capability
C4_Witness ==
    /\ pcExec = "done"
    /\ ~hasShutdowner
    /\ received # <<>>
    /\ Last(received).Cmd = "Shutdown"
    /\ IsStopCall(Last(calls))

\* a Shutdown request handled by a client with the Shutdown capability
C4_WitnessShutdowner ==
    /\ pcExec = "done"
    /\ hasShutdowner
    /\ received # <<>>
    /\ Last(received).Cmd = "Shutdown"
    /\ IsShutdownCall(Last(calls))

\* no request received so far is a Stop or a Shutdown
NoTerminalReceived == \A i \in 1..Len(received) : ~IsTerminal(received[i])

\* C5 as stated: for any sequence of requests without Stop and Shutdown,
\* Execute never terminates.
C5_Original ==
    (ExecEntered /\ NoTerminalReceived) => (pcExec # "done" /\ exits = <<>>)

\* C5 amended: once client.Start() has succeeded, for any sequence of
\* requests without Stop and Shutdown Execute never terminates: it is
\* waiting for the next request (or sending Running, or echoing the
\* Interrogate it has just received); a failed client.Start() is the one
\* way Execute terminates without a Stop or Shutdown request, and it then
\* has received no request at all.
C5_NeverTerminatesOnceStarted ==
    /\ (ExecEntered /\ StartSucceeded /\ NoTerminalReceived) =>
          /\ pcExec \in {"L191", "L194", "L197"}
          /\ pcExec = "L197" => IsInterrogate(Last(received))
          /\ exits = <<>>
    /\ (ExecEntered /\ NoTerminalReceived /\ exits # <<>>) =>
          /\ calls = <<Call("Start", "EStart")>>
          /\ received = <<>>
          /\ exits = << <<TRUE, 1>> >>

\* all MaxReq requests consumed, none of them Stop or Shutdown, not all of
\* them Interrogate, and Execute is waiting for the next one
C5_Witness ==
    /\ pcExec = "L194"
    /\ Len(received) = MaxReq
    /\ NoTerminalReceived
    /\ \E i \in 1..Len(received) : ~IsInterrogate(received[i])
    /\ \E i \in 1..Len(received) : IsInterrogate(received[i])

RECURSIVE CurrentStatusesOf(_)
\* the CurrentStatus fields of a sequence of requests
CurrentStatusesOf(q) ==
    IF q = <<>> THEN <<>>
    ELSE <<q[1].CurrentStatus>> \o CurrentStatusesOf(Tail(q))

\* the CurrentStatus of each Interrogate received, in order
Interrogated == CurrentStatusesOf(SelectSeq(received, IsInterrogate))

\* the requests received are n >= 0 Interrogates
OnlyInterrogates == \A i \in 1..Len(received) : IsInterrogate(received[i])

\* the requests received are n >= 0 Interrogates and then one Stop
InterrogatesThenStop ==
    /\ received # <<>>
    /\ Last(received).Cmd = "Stop"
    /\ \A i \in 1..(Len(received) - 1) : IsInterrogate(received[i])

\* C6: every Interrogate handled has caused exactly one send, of the
\* CurrentStatus the request carried; while only Interrogates have been
\* received no callback but Start has been invoked, the relay is empty and
\* Execute has not returned; and after n Interrogates and a Stop the
\* callbacks invoked, the relay and the return value are those of a Stop
\* with n = 0.
C6_InterrogateIdempotent ==
    /\ pcExec # "L197" => Echoed = Interrogated
    /\ pcExec = "L197" =>
          /\ IsInterrogate(Last(received))
          /\ Echoed \o <<c.CurrentStatus>> = Interrogated
    /\ (ExecEntered /\ StartSucceeded /\ OnlyInterrogates) =>
          /\ calls = <<Call("Start", nil)>>
          /\ relayWrites = <<>>
          /\ stopStartErr = nil
          /\ exits = <<>>
    /\ (InterrogatesThenStop /\ pcExec = "done") =>
          \E e \in StopResults :
              /\ calls = <<Call("Start", nil), Call("Stop", e)>>
              /\ relayWrites = IF e = nil THEN <<>> ELSE <<e>>
              /\ stopStartErr = e
              /\ exits = <<IF e = nil THEN <<FALSE, 0>> ELSE <<TRUE, 2>> >>
              /\ Originated = LifecycleOrder

\* two Interrogates carrying different statuses, then a Stop, and Execute
\* has returned
C6_Witness ==
    /\ pcExec = "done"
    /\ Len(received) = 3
    /\ InterrogatesThenStop
    /\ received[1].CurrentStatus # received[2].CurrentStatus
    /\ received[1].CurrentStatus # Status("Running", {"Stop", "Shutdown"})

\* C7: receiving a request that is none of Interrogate, Stop, Shutdown
\* sends no status, invokes no callback, leaves the relay as it is and
\* leaves Execute waiting for the next request, not returned.
C7_UnknownIgnored ==
    [][ ( /\ pcExec = "L194"
          /\ received' # received
          /\ Last(received').Cmd \notin {"Interrogate", "Stop", "Shutdown"} )
        => ( /\ pcExec' = "L194"
             /\ UNCHANGED <<changes, calls, stopStartErr, relayWrites,
                            exits, execRet, err>> ) ]_vars

\* an unrecognised request has been received after another request and
\* Execute is waiting for the next
C7_Witness ==
    /\ pcExec = "L194"
    /\ Len(received) = 2
    /\ received[1].Cmd = "Interrogate"
    /\ received[2].Cmd = "Pause"
    /\ Len(changes) = 3


(***************************************************************************)
(* Properties of the service-manager operations, checked under SpecMgr.    *)
(***************************************************************************)
IsObservation(e) == e.call \in {"Control", "Query"}
IsTimeout(e) == e.call = "timeout"

\* what stopWait has seen of the service: the reply to the stop control
\* (tick 0) and then the reply to each poll (ticks 1, 2, ...)
Obs == SelectSeq(scmLog, IsObservation)

\* stopWait has issued the stop control and created its timers
TimersSet ==
    /\ op \in {"Stop", "Restart"}
    /\ Obs # <<>>
    /\ Obs[1].ret \in RawStates
    /\ pcM # "L543"

\* the deadline of the claims: kill-timeout plus two ticks
StopDeadline == killTimeout + (2 * TickUnits)

\* the ticks at which the service was seen Stopped
StoppedTicks == {k \in 0..(Len(Obs) - 1) : Obs[k + 1].ret = "Stopped"}

\* C8: the polls happen at the ticks, one per tick, and the wait never runs
\* past the deadline D = kill-timeout + 2 ticks; if the service is first
\* seen Stopped at tick k with k * interval < D, stopWait returns success no
\* later than one tick after tick k and never a timeout; if the service is
\* never seen Stopped and no call fails, stopWait never returns success and
\* returns the timeout error at a time in [D, D + one tick).  Stop()
\* returns what stopWait returned.
C8_StopWaitTiming ==
    TimersSet =>
        /\ \A k \in 0..(Len(Obs) - 1) : Obs[k + 1].at = k * TickUnits
        /\ waitRet = NoRet =>
              /\ now <= StopDeadline
              /\ now <= Len(Obs) * TickUnits
        /\ \A k \in StoppedTicks :
              k * TickUnits < StopDeadline =>
                  /\ k = Len(Obs) - 1
                  /\ \A e \in DOMAIN scmLog : ~IsTimeout(scmLog[e])
                  /\ waitRet \in {NoRet, nil}
                  /\ waitRet = NoRet => pcM = "L547"
                  /\ now <= (k + 1) * TickUnits
        /\ (StoppedTicks = {} /\ \A i \in DOMAIN Obs : Obs[i].ret \in RawStates) =>
              /\ waitRet \in {NoRet, "ETimeout"}
              /\ waitRet = "ETimeout" =>
                    /\ StopDeadline <= now
                    /\ now < StopDeadline + TickUnits
        /\ (op = "Stop" /\ pcM = "done") => opRet = waitRet

\* Stop() returned success after the service was first seen Stopped at the
\* second poll, with a deadline that falls between two ticks
C8_Witness ==
    /\ op = "Stop"
    /\ pcM = "done"
    /\ opRet = nil
    /\ StoppedTicks = {2}
    /\ killTimeout = 1

\* Stop() returned the timeout error, with a deadline that falls on a tick
C8_WitnessTimeout ==
    /\ op = "Stop"
    /\ pcM = "done"
    /\ opRet = "ETimeout"
    /\ killTimeout = 2
    /\ Len(Obs) = 4

\* C9 as stated: stopWait returns success at the first observation whose
\* raw state collapses to Stopped under the table of Status(), and keeps
\* polling only while the collapsed status is not Stopped.
C9_Original ==
    TimersSet =>
        \A i \in DOMAIN Obs :
            Collapse(Obs[i].ret) = "StatusStopped" =>
                /\ i = Len(Obs)
                /\ waitRet \in {NoRet, nil}
                /\ waitRet = NoRet => pcM = "L547"

\* C9 amended: stopWait's predicate is the raw state: it returns success at
\* the first observation (the control's reply or a later poll) whose raw
\* state is Stopped, and only then; it keeps polling while the raw state is
\* anything else, PausePending, Paused, ContinuePending and StopPending
\* included, until a poll fails or the deadline passes.
C9_StopWaitPredicate ==
    TimersSet =>
        /\ \A i \in DOMAIN Obs :
              Obs[i].ret = "Stopped" =>
                  /\ i = Len(Obs)
                  /\ waitRet \in {NoRet, nil}
                  /\ waitRet = NoRet => pcM = "L547"
        /\ waitRet = nil => Last(Obs).ret = "Stopped"
        /\ (Last(Obs).ret \in RawStates \ {"Stopped"} /\ waitRet # NoRet) =>
              waitRet = "ETimeout"
        /\ pcM \in {"L547", "L548"} => status = Last(Obs).ret
        /\ pcM = "L548" => status # "Stopped"

\* stopWait saw Paused, then StopPending, went on polling and returned
\* success on seeing Stopped
C9_Witness ==
    /\ TimersSet
    /\ waitRet = nil
    /\ Len(Obs) = 3
    /\ Obs[1].ret = "Paused"
    /\ Obs[2].ret = "StopPending"
    /\ Obs[3].ret = "Stopped"

\* the places of the start requests in the log of a Restart()
StartCalls == {i \in DOMAIN scmLog : scmLog[i].call = "Start"}

\* the places of the failures other than of the start request: opening the
\* manager or the service, the stop control, a poll, the timeout
StopFailures ==
    {i \in DOMAIN scmLog :
        /\ scmLog[i].call # "Start"
        /\ scmLog[i].ret \notin RawStates \cup {nil}}

\* C10: in Restart() the start request is issued at most once, and only
\* right after stopWait has seen the service Stopped and returned success;
\* if opening a handle, the stop control, a poll or the wait fails, nothing
\* more is asked of the manager, start is never issued and Restart()
\* returns that error; if the stop converges Restart() issues start and
\* returns its result, and when that is an error the service is left
\* Stopped.
C10_RestartSequential ==
    op = "Restart" =>
        /\ Cardinality(StartCalls) <= 1
        /\ \A i \in StartCalls :
              /\ i > 1
              /\ IsObservation(scmLog[i - 1])
              /\ scmLog[i - 1].ret = "Stopped"
              /\ waitRet = nil
              /\ i = Len(scmLog)
        /\ \A i \in StopFailures :
              /\ StartCalls = {}
              /\ i = Len(scmLog)
              /\ pcM \in {"return", "done"}
              /\ pcM = "done" => opRet = scmLog[i].ret
        /\ (pcM = "done" /\ waitRet = nil) => StartCalls # {}
        /\ \A i \in StartCalls :
              pcM = "done" =>
                  /\ opRet = scmLog[i].ret
                  /\ opRet # nil => svcState = "Stopped"
                  /\ opRet = nil => svcState \in {"StartPending", "Running"}

\* Restart() returned the error of its start request, issued after two
\* polls
C10_Witness ==
    /\ op = "Restart"
    /\ pcM = "done"
    /\ opRet = "EStartService"
    /\ Len(Obs) = 3
    /\ StartCalls # {}

\* Restart() returned the timeout error of the wait
C10_WitnessTimeout ==
    /\ op = "Restart"
    /\ pcM = "done"
    /\ opRet = "ETimeout"


(***************************************************************************)
(* Further properties of Run and Execute, checked under Spec.              *)
(***************************************************************************)
\* the latest Run() has returned
RunReturned == pcRun = "idle" /\ runNo > 0

\* no client callback has failed in this Run()
NoCallFailed == \A i \in DOMAIN calls : ~IsFailedCall(calls[i])

\* C15: Run() empties the relay first of all, before Execute is entered and
\* before any client callback is invoked, whatever an earlier Run() left in
\* it: past line 410 the relay holds nothing but what this run's Execute
\* wrote; and a Run() in which no client callback failed and svc.Run
\* returned no error returns nil.
C15_RelayResetEachRun ==
    /\ pcRun = "L410" =>
          /\ pcExec = "idle"
          /\ calls = <<>>
          /\ changes = <<>>
    /\ (pcRun \notin {"idle", "L410"} /\ relayWrites = <<>>) =>
          stopStartErr = nil
    /\ (RunReturned /\ relayWrites = <<>>) => stopStartErr = nil
    /\ (RunReturned /\ NoCallFailed /\ runErr = nil) => runRet = nil

\* a second Run() that found an error of the first in the relay, ran a
\* client that started and stopped without error, and returned nil
C15_Witness ==
    /\ ~interactive
    /\ RunReturned
    /\ runNo = 2
    /\ relayAtCall # nil
    /\ calls = <<Call("Start", nil), Call("Stop", nil)>>
    /\ runErr = nil
    /\ runRet = nil

\* C16: in interactive mode Execute is never entered, no status is sent,
\* svc.Run is never called and the relay never holds an error; Run() calls
\* client.Start() once; if it fails Run() returns its error, with no
\* interrupt awaited and no client.Stop(); otherwise Run() waits for one
\* interrupt, then calls client.Stop() once and returns its result.
C16_InteractiveBypass ==
    interactive =>
        /\ pcExec = "idle"
        /\ changes = <<>>
        /\ received = <<>>
        /\ relayWrites = <<>>
        /\ exits = <<>>
        /\ stopStartErr = nil
        /\ runErr = nil
        /\ pcRun \in {"idle", "L410", "L426", "L435", "L437"}
        /\ pcRun \in {"L410", "L426"} => (calls = <<>> /\ interrupts = 0)
        /\ pcRun = "L435" =>
              (calls = <<Call("Start", nil)>> /\ interrupts = 0)
        /\ pcRun = "L437" =>
              (calls = <<Call("Start", nil)>> /\ interrupts = 1)
        /\ RunReturned =>
              \/ /\ Len(calls) = 1
                 /\ calls[1].fn = "Start"
                 /\ IsFailedCall(calls[1])
                 /\ runRet = calls[1].ret
                 /\ interrupts = 0
              \/ /\ Len(calls) = 2
                 /\ calls[1] = Call("Start", nil)
                 /\ calls[2].fn = "Stop"
                 /\ runRet = calls[2].ret
                 /\ interrupts = 1

\* an interactive Run() that started the client, was interrupted, and
\* returned the error of client.Stop()
C16_Witness ==
    /\ interactive
    /\ RunReturned
    /\ interrupts = 1
    /\ calls = <<Call("Start", nil), Call("Stop", "EStop")>>
    /\ runRet = "EStop"

\* C17: when Run() reads the relay (line 417) and ever after in that Run(),
\* the Execute of that run is not active: it has returned, or was never
\* entered because svc.Run failed first; so what Run() read is what the
\* relay holds for good, the error Execute recorded if it recorded one.
C17_ReadAfterLoop ==
    (~interactive /\ (pcRun \in {"L417", "L418"} \/ RunReturned)) =>
        /\ pcExec \in {"idle", "done"}
        /\ pcExec = "idle" => (relayWrites = <<>> /\ runErr # nil)
        /\ (pcRun = "L418" \/ RunReturned) =>
              /\ startStopErr = stopStartErr
              /\ relayWrites # <<>> => startStopErr = Last(relayWrites)
              /\ relayWrites = <<>> => startStopErr = nil

\* Run() has read from the relay the error that Execute recorded when
\* client.Stop() failed
C17_Witness ==
    /\ pcRun = "L418"
    /\ pcExec = "done"
    /\ relayWrites = <<"EStop">>
    /\ startStopErr = "EStop"

\* C18: in one Execute the relay is written at most once, with an error,
\* and once it is written only the return is left; Execute returns a
\* non-zero exit code exactly when it wrote the relay: 1 exactly when
\* client.Start() failed, 2 exactly when client.Stop() or Shutdown failed,
\* and (false, 0) exactly when it wrote nothing.
C18_RelayWriteAndExitCode ==
    /\ Len(relayWrites) <= 1
    /\ \A i \in DOMAIN relayWrites : relayWrites[i] # nil
    /\ relayWrites # <<>> =>
          /\ pcExec \in {"L188", "L202", "L215", "done"}
          /\ relayWrites = <<Last(calls).ret>>
          /\ stopStartErr = relayWrites[1]
    /\ pcExec = "done" =>
          /\ execRet[2] \in {0, 1, 2}
          /\ execRet[1] = (execRet[2] # 0)
          /\ (execRet[2] # 0) = (relayWrites # <<>>)
          /\ (execRet[2] = 1) =
                (Len(calls) = 1 /\ calls[1].fn = "Start"
                                /\ IsFailedCall(calls[1]))
          /\ (execRet[2] = 2) =
                (Len(calls) = 2 /\ calls[2].fn \in {"Stop", "Shutdown"}
                                /\ IsFailedCall(calls[2]))
          /\ (execRet[2] = 0) = NoCallFailed

\* Execute returned (true, 2) after the client's Shutdown failed
C18_Witness ==
    /\ pcExec = "done"
    /\ execRet = <<TRUE, 2>>
    /\ Last(calls) = Call("Shutdown", "EShutdown")
    /\ relayWrites = <<"EShutdown">>


(***************************************************************************)
(* Properties of the service-manager operations, checked under SpecMgr.    *)
(***************************************************************************)
\* the operation called last has returned
OpReturned(o) == op = o /\ pcM = "done"

IsOpenFailure(e) ==
    /\ e.call \in {"OpenSCManager", "OpenService"}
    /\ e.ret # nil

\* the calls of the operation that start, stop, query or wait
IsActingCall(e) == e.call \in {"Start", "Control", "Query", "timeout"}

\* C13: when opening the manager connection or the service handle fails in
\* Start, Stop or Restart, the failed open is the last call the operation
\* makes: no start request, no stop control, no status query, no timers and
\* no wait; the operation returns the error of the open.
C13_OpenFailureAborts ==
    (op \in {"Start", "Stop", "Restart"}) =>
        \A i \in DOMAIN scmLog :
            IsOpenFailure(scmLog[i]) =>
                /\ i = Len(scmLog)
                /\ \A j \in DOMAIN scmLog : ~IsActingCall(scmLog[j])
                /\ pcM \in {"return", "done"}
                /\ waitRet = NoRet
                /\ status = "none"
                /\ now = 0 /\ timeoutAt = 0 /\ ticksTaken = 0
                /\ opErr = scmLog[i].ret
                /\ pcM = "done" => opRet = scmLog[i].ret

\* Restart() returned the error of a failed OpenService on an installed
\* service, the manager open
C13_Witness ==
    /\ OpReturned("Restart")
    /\ installed
    /\ scmLog = <<[call |-> "OpenSCManager", ret |-> nil, at |-> 0],
                  [call |-> "OpenService", ret |-> "EOpen", at |-> 0]>>
    /\ opRet = "EOpen"

\* the table of Status(), written out
TableStatus(st) ==
    IF st \in {"StartPending", "Running"} THEN "StatusRunning"
    ELSE IF st \in {"PausePending", "Paused", "ContinuePending",
                    "StopPending", "Stopped"} THEN "StatusStopped"
    ELSE "StatusUnknown"

\* Status() returned after its Query() succeeded
StatusQueried ==
    /\ OpReturned("Status")
    /\ Last(scmLog).call = "Query"
    /\ Last(scmLog).ret # "EQuery"

\* the service did not exist when the operation was called; only Install()
\* creates it, so it has not existed at any time of the operation
NotInstalledAtCall == ~atCall.installed

\* the table part of C14
StatusTable ==
    StatusQueried =>
        /\ statusRet = TableStatus(Last(scmLog).ret)
        /\ (statusRet = "StatusUnknown") = (opRet # nil)
        /\ Last(scmLog).ret \in RawStates => opRet = nil

\* C14 as stated: the table, and Unknown with NotInstalled, never another
\* error, whenever the service does not exist.
C14_Original ==
    /\ StatusTable
    /\ (OpReturned("Status") /\ NotInstalledAtCall) =>
          (statusRet = "StatusUnknown" /\ opRet = "ErrNotInstalled")

\* C14 (amended): Status() maps every raw state by the table, Unknown
\* coming with an error; when the service does not exist Status() gives
\* Unknown with an error: NotInstalled when OpenService reports the
\* service's absence, and otherwise the error of the failed connection or
\* open as it is; NotInstalled is given in no other case.
C14_StatusTable ==
    /\ StatusTable
    /\ (OpReturned("Status") /\ NotInstalledAtCall) =>
          /\ statusRet = "StatusUnknown"
          /\ opRet # nil
          /\ opRet = Last(scmLog).ret \/ opRet = "ErrNotInstalled"
    /\ OpReturned("Status") =>
          ((opRet = "ErrNotInstalled")
             = (Last(scmLog) = [call |-> "OpenService",
                                ret |-> "errnoServiceDoesNotExist",
                                at |-> 0]))
    /\ (OpReturned("Status") /\ opRet # nil) => statusRet = "StatusUnknown"

\* Status() of a service that does not exist returned Unknown and
\* ErrNotInstalled
C14_Witness ==
    /\ OpReturned("Status")
    /\ NotInstalledAtCall
    /\ statusRet = "StatusUnknown"
    /\ opRet = "ErrNotInstalled"

\* Status() of a service in StopPending returned Stopped and no error
C14_WitnessStopPending ==
    /\ StatusQueried
    /\ Last(scmLog).ret = "StopPending"
    /\ statusRet = "StatusStopped"
    /\ opRet = nil

\* Status() met a state the table does not name
C14_WitnessOther ==
    /\ StatusQueried
    /\ Last(scmLog).ret = OtherState
    /\ statusRet = "StatusUnknown"
    /\ opRet = "EUnknownStatus"


(***************************************************************************)
(* Install and Uninstall.                                                  *)
(***************************************************************************)
\* the operation has made the call, with any result
Called(call) == \E i \in DOMAIN scmLog : scmLog[i].call = call

\* the operation has made the call, and the call succeeded
Succeeded(call) ==
    \E i \in DOMAIN scmLog : scmLog[i].call = call /\ scmLog[i].ret = nil

\* C11: Uninstall() of an installed service issues delete-service whatever
\* its Stop() step returned: when Uninstall() has returned and its Stop()
\* failed, s.Delete() has been called.
C11_Original ==
    (/\ OpReturned("Uninstall")
     /\ atCall.installed
     /\ installed
     /\ stopRet \notin {NoRet, nil}) => Called("Delete")

\* C12: when an operation has returned, as many manager connections and as
\* many service handles are open as when it was called; with no operation
\* in progress none is open.
C12_Original ==
    /\ pcM = "done" =>
          /\ mgrOpen = atCall.mgrOpen
          /\ svcOpen = atCall.svcOpen
    /\ pcM \in {"idle", "done"} =>
          /\ mgrOpen = 0
          /\ svcOpen = 0

\* C19: the manager removing a marked entry once every handle is closed
\* (ScmRemoves) and no handle being open at the call, Uninstall() of an
\* installed service whose Stop() and s.Delete() both succeeded, and whose
\* eventlog.Remove and polls met no other failure, returns nil and not the
\* delete timeout.
C19_Original ==
    (/\ OpReturned("Uninstall")
     /\ atCall.installed
     /\ atCall.svcOpen = 0
     /\ stopRet = nil
     /\ Succeeded("Delete")
     /\ opRet \notin {"ERemoveEventLogSource", "EErrorOpenService"})
        => opRet = nil

\* the errors of Install() that C20 names: the service already exists,
\* CreateService failed, SetRecoveryActions failed, the event-log source
\* could not be registered
InstallFailures == {"EAlreadyExists", "ECreate", "ERecovery",
                    "ESetupEventLogSource"}

\* C20: when Install() has returned one of these errors, a service that did not exist
\* at the call is not left registered (it does not exist, or is marked for
\* deletion), and the Environment value of a service that existed at the
\* call is as it was.
C20_Original ==
    (OpReturned("Install") /\ opRet \in InstallFailures) =>
        /\ ~atCall.installed => (~installed \/ marked)
        /\ (atCall.installed /\ installed) => envValue = atCall.envValue

====
